---- MODULE Spec2Model ----
(***************************************************************************)
(* State-machine model of the WebpToJpegConverter component               *)
(* (src/components/HelloWorld.vue).  The JavaScript run-to-completion      *)
(* rule makes every event handler, together with the promise reactions it  *)
(* schedules, one atomic step; the suspension points are the pending file  *)
(* read, the pending image decode and the pending archive generation.      *)
(*                                                                         *)
(* Strings are sequences of chunks; text the code inspects character by    *)
(* character (file names, generated names) is spelled one character per    *)
(* chunk, fixed message text is a single chunk.                            *)
(***************************************************************************)
EXTENDS Integers, Sequences, FiniteSets, TLC

\* Longest file list the picker hands to the component while runs are modelled.
MaxFiles == 2
\* Longest file list the selection filter alone is tried on.
MaxPicked == 3
\* Most archive exports awaiting generateAsync at one time.
MaxExports == 1
\* Most object URLs left unreleased before the leaking path is cut off.
MaxUrls == 1

VARIABLES
  inputFiles,       \* event.target.files of the change event the latest step
                    \* handled, empty when it handled another event
  selectedFiles,    \* data().selectedFiles
  convertedImages,  \* data().convertedImages
  isConverting,     \* data().isConverting
  error,            \* data().error
  runs,             \* convertImages invocations that have not returned, each
                    \* with the pending pipeline and (history) the selection
                    \* it started with
  zips,             \* downloadAllImages invocations awaiting generateAsync
  download,         \* the download the latest step asked the browser to start
  objectUrls,       \* object URLs created and not yet revoked
  lastEvent         \* history: the handler that ran last

vars == <<inputFiles, selectedFiles, convertedImages, isConverting, error,
          runs, zips, download, objectUrls, lastEvent>>

----------------------------------------------------------------------------
\* Files the user can pick: name, declared media type, content.
FileA == [name |-> <<"a", ".", "w", "e", "b", "p">>, type |-> "image/webp", data |-> "A"]
FileB == [name |-> <<"b", ".", "p", "n", "g">>,      type |-> "image/png",  data |-> "B"]
FileC == [name |-> <<"c", ".", "W", "E", "B", "P">>, type |-> "",           data |-> "C"]
FileD == [name |-> <<"d", ".", "j", "p", "g">>,      type |-> "image/webp", data |-> "D"]
FileE == [name |-> <<"w", "e", "b", "p">>,           type |-> "",           data |-> "E"]
FileF == [name |-> <<"f", ".", "w", "e", "b", "p", "x">>, type |-> "text/plain", data |-> "F"]

\* The files of the conversion runs, and the wider set the filter is tried on.
FilePool == {FileA, FileB, FileC}
WidePool == {FileA, FileB, FileC, FileD, FileE, FileF}

\* A FileList holds each picked file once.
ListsOver(pool, max) ==
  UNION { { s \in [1..n -> pool] : \A i, j \in 1..n : i # j => s[i] # s[j] }
          : n \in 0..max }

FileLists == ListsOver(FilePool, MaxFiles)
WideFileLists == ListsOver(WidePool, MaxPicked)

\* data(): error: null
Null == [null |-> TRUE, text |-> <<>>]
Message(text) == [null |-> FALSE, text |-> text]

RemoveAt(s, k) == SubSeq(s, 1, k - 1) \o SubSeq(s, k + 1, Len(s))

----------------------------------------------------------------------------
\* String.prototype.toLowerCase on one character
LowerChar(c) ==
  CASE c = "W" -> "w"
    [] c = "E" -> "e"
    [] c = "B" -> "b"
    [] c = "P" -> "p"
    [] OTHER -> c

toLowerCase(s) == [k \in 1..Len(s) |-> LowerChar(s[k])]

endsWith(s, suffix) ==
  /\ Len(s) >= Len(suffix)
  /\ SubSeq(s, Len(s) - Len(suffix) + 1, Len(s)) = suffix

\* the filter predicate without the toLowerCase call
isWebpCaseSensitive(file) ==
  \/ file.type = "image/webp"
  \/ endsWith(file.name, <<".", "w", "e", "b", "p">>)

\* file => file.type === 'image/webp' || file.name.toLowerCase().endsWith('.webp')
isWebp(file) ==
  \/ file.type = "image/webp"
  \/ endsWith(toLowerCase(file.name), <<".", "w", "e", "b", "p">>)

\* Array.prototype.filter with the predicate above
RECURSIVE filter(_)
filter(files) ==
  IF files = <<>> THEN <<>>
  ELSE (IF isWebp(Head(files)) THEN <<Head(files)>> ELSE <<>>) \o filter(Tail(files))

\* Number-to-string conversion of a template literal
Digit(d) ==
  CASE d = 0 -> "0" [] d = 1 -> "1" [] d = 2 -> "2" [] d = 3 -> "3" [] d = 4 -> "4"
    [] d = 5 -> "5" [] d = 6 -> "6" [] d = 7 -> "7" [] d = 8 -> "8" [] d = 9 -> "9"

RECURSIVE Decimal(_)
Decimal(n) == IF n < 10 THEN <<Digit(n)>> ELSE Decimal(n \div 10) \o <<Digit(n % 10)>>

\* `img-${index}.jpg`
fileName(index) == <<"i", "m", "g", "-">> \o Decimal(index) \o <<".", "j", "p", "g">>

\* canvas.toDataURL('image/jpeg', 0.9): scheme prefix, comma, base64 payload
toDataURL(file) == <<"data:image/jpeg;base64", ",", "jpeg", file.data>>

\* the value convertWebpToJpeg resolves with
result(file, index) ==
  [name |-> fileName(index), url |-> toDataURL(file), originalFile |-> file]

\* the read error message without the file name
readErrorMessageWithoutName(file) == <<"Failed to read file">>

\* new Error(`Failed to read file: ${file.name}`).message
readErrorMessage(file) == <<"Failed to read file: ">> \o file.name
\* new Error(`Failed to load image: ${file.name}`).message
loadErrorMessage(file) == <<"Failed to load image: ">> \o file.name
\* the message of the exception canvas.toDataURL throws
encodeErrorMessage == <<"toDataURL failed">>
\* the message of a rejected generateAsync
zipErrorMessage == <<"generateAsync failed">>
\* the message of an exception thrown while attaching or clicking the link
linkErrorMessage == <<"link failed">>

\* convertWebpToJpeg(file, index) up to reader.readAsDataURL(file)
convertWebpToJpeg(i, file, index) ==
  [i |-> i, file |-> file, index |-> index, pc |-> "read"]

----------------------------------------------------------------------------
Init ==
  /\ inputFiles = <<>>
  /\ selectedFiles = <<>>
  /\ convertedImages = <<>>
  /\ isConverting = FALSE
  /\ error = Null
  /\ runs = <<>>
  /\ zips = <<>>
  /\ download = <<>>
  /\ objectUrls = 0
  /\ lastEvent = "init"

\* handleFileSelect resetting the results only for a non-empty new selection
handleFileSelectKeepsOnEmpty(files) ==
  /\ inputFiles' = files
  /\ selectedFiles' = filter(files)
  /\ IF filter(files) = <<>>
     THEN UNCHANGED <<convertedImages, error>>
     ELSE convertedImages' = <<>> /\ error' = Null
  /\ lastEvent' = "select" /\ download' = <<>>
  /\ UNCHANGED <<isConverting, runs, zips, objectUrls>>

\* handleFileSelect(event)
handleFileSelect(files) ==
  /\ inputFiles' = files
  /\ selectedFiles' = filter(files)
  /\ convertedImages' = <<>>
  /\ error' = Null
  /\ lastEvent' = "select" /\ download' = <<>>
  /\ UNCHANGED <<isConverting, runs, zips, objectUrls>>

\* the button disabled only for an empty selection
convertDisabledIgnoresBusy == Len(selectedFiles) = 0

\* :disabled="selectedFiles.length === 0 || isConverting"
convertDisabled == Len(selectedFiles) = 0 \/ isConverting

\* v-if="convertedImages.length > 0" on the results block
resultsShown == Len(convertedImages) > 0

\* convertImages() that keeps the results of the previous run
convertImagesKeepsResults ==
  IF Len(selectedFiles) = 0
  THEN /\ lastEvent' = "convertEmpty" /\ inputFiles' = <<>> /\ download' = <<>>
       /\ UNCHANGED <<selectedFiles, convertedImages, isConverting,
                      error, runs, zips, objectUrls>>
  ELSE /\ isConverting' = TRUE
       /\ error' = Null
       /\ runs' = Append(runs, convertWebpToJpeg(0, selectedFiles[1], 1)
                                   @@ [started |-> selectedFiles])
       /\ lastEvent' = "convert" /\ inputFiles' = <<>> /\ download' = <<>>
       /\ UNCHANGED <<selectedFiles, convertedImages, zips, objectUrls>>

\* convertImages() without the check for an empty selection
convertImagesNoEmptyCheck ==
  IF Len(selectedFiles) = 0
  THEN /\ isConverting' = FALSE
       /\ error' = Null
       /\ convertedImages' = <<>>
       /\ lastEvent' = "convert" /\ inputFiles' = <<>> /\ download' = <<>>
       /\ UNCHANGED <<selectedFiles, runs, zips, objectUrls>>
  ELSE /\ isConverting' = TRUE
       /\ error' = Null
       /\ convertedImages' = <<>>
       /\ runs' = Append(runs, convertWebpToJpeg(0, selectedFiles[1], 1)
                                   @@ [started |-> selectedFiles])
       /\ lastEvent' = "convert" /\ inputFiles' = <<>> /\ download' = <<>>
       /\ UNCHANGED <<selectedFiles, zips, objectUrls>>

\* convertImages() from its call to the first await
convertImages ==
  IF Len(selectedFiles) = 0
  THEN /\ lastEvent' = "convertEmpty" /\ inputFiles' = <<>> /\ download' = <<>>
       /\ UNCHANGED <<selectedFiles, convertedImages, isConverting,
                      error, runs, zips, objectUrls>>
  ELSE /\ isConverting' = TRUE
       /\ error' = Null
       /\ convertedImages' = <<>>
       /\ runs' = Append(runs, convertWebpToJpeg(0, selectedFiles[1], 1)
                                   @@ [started |-> selectedFiles])
       /\ lastEvent' = "convert" /\ inputFiles' = <<>> /\ download' = <<>>
       /\ UNCHANGED <<selectedFiles, zips, objectUrls>>

\* the catch block without the finally block
catchWithoutFinally(k, message) ==
  /\ error' = Message(<<"Error converting images: ">> \o message)
  /\ runs' = RemoveAt(runs, k)
  /\ UNCHANGED <<selectedFiles, convertedImages, isConverting, zips, objectUrls>>

\* catch (err) { ... } finally { ... } of convertImages, for the run at k
catchFinally(k, message) ==
  /\ error' = Message(<<"Error converting images: ">> \o message)
  /\ isConverting' = FALSE
  /\ runs' = RemoveAt(runs, k)
  /\ UNCHANGED <<selectedFiles, convertedImages, zips, objectUrls>>

\* the loop appending a result only when it is the last one
resumeAppendsLastOnly(k, image) ==
  LET next == runs[k].i + 1 IN
  /\ IF next < Len(selectedFiles)
     THEN /\ runs' = [runs EXCEPT
                        ![k] = convertWebpToJpeg(next, selectedFiles[next + 1], next + 1)
                               @@ [started |-> runs[k].started]]
          /\ UNCHANGED <<isConverting, convertedImages>>
     ELSE /\ runs' = RemoveAt(runs, k)
          /\ convertedImages' = Append(convertedImages, image)
          /\ isConverting' = FALSE
  /\ UNCHANGED <<selectedFiles, error, zips, objectUrls>>

\* the loop of convertImages resumed with the awaited result, for the run at k
resume(k, image) ==
  LET next == runs[k].i + 1 IN
  /\ convertedImages' = Append(convertedImages, image)
  /\ IF next < Len(selectedFiles)
     THEN /\ runs' = [runs EXCEPT
                        ![k] = convertWebpToJpeg(next, selectedFiles[next + 1], next + 1)
                               @@ [started |-> runs[k].started]]
          /\ UNCHANGED isConverting
     ELSE /\ runs' = RemoveAt(runs, k)
          /\ isConverting' = FALSE
  /\ UNCHANGED <<selectedFiles, error, zips, objectUrls>>

\* reader.onload: the read succeeded, the decode starts
readerOnload(k) ==
  /\ runs[k].pc = "read"
  /\ runs' = [runs EXCEPT ![k].pc = "decode"]
  /\ lastEvent' = "readerOnload" /\ inputFiles' = <<>> /\ download' = <<>>
  /\ UNCHANGED <<selectedFiles, convertedImages, isConverting, error,
                 zips, objectUrls>>

\* reader.onerror
readerOnerror(k) ==
  /\ runs[k].pc = "read"
  /\ catchFinally(k, readErrorMessage(runs[k].file))
  /\ lastEvent' = "readerOnerror" /\ inputFiles' = <<>> /\ download' = <<>>

\* img.onerror
imgOnerror(k) ==
  /\ runs[k].pc = "decode"
  /\ catchFinally(k, loadErrorMessage(runs[k].file))
  /\ lastEvent' = "imgOnerror" /\ inputFiles' = <<>> /\ download' = <<>>

\* img.onload: the canvas calls throw outside the try, toDataURL throws
\* inside it, or the promise resolves
imgOnload(k, outcome) ==
  /\ runs[k].pc = "decode"
  /\ CASE outcome = "drawThrows" ->
            /\ runs' = [runs EXCEPT ![k].pc = "stuck"]
            /\ lastEvent' = "imgOnloadDrawThrows" /\ inputFiles' = <<>> /\ download' = <<>>
            /\ UNCHANGED <<selectedFiles, convertedImages, isConverting,
                           error, zips, objectUrls>>
       [] outcome = "encodeThrows" ->
            /\ catchFinally(k, encodeErrorMessage)
            /\ lastEvent' = "imgOnloadEncodeThrows" /\ inputFiles' = <<>> /\ download' = <<>>
       [] outcome = "ok" ->
            /\ resume(k, result(runs[k].file, runs[k].index))
            /\ lastEvent' = "imgOnload" /\ inputFiles' = <<>> /\ download' = <<>>

ImgOutcomes == {"ok", "drawThrows", "encodeThrows"}

----------------------------------------------------------------------------
\* image.url.split(',')[1]
RECURSIVE afterFirstComma(_)
afterFirstComma(url) ==
  IF url = <<>> THEN <<>>
  ELSE IF Head(url) = "," THEN Tail(url) ELSE afterFirstComma(Tail(url))

\* zip.file(name, base64Data, { base64: true }): an entry of that name is
\* replaced where it stands, a new name is added at the end
zipFile(entries, name, content) ==
  IF \E j \in 1..Len(entries) : entries[j].name = name
  THEN [j \in 1..Len(entries) |->
          IF entries[j].name = name THEN [name |-> name, content |-> content]
          ELSE entries[j]]
  ELSE Append(entries, [name |-> name, content |-> content])

\* the forEach that keeps the whole data URL as the entry content
RECURSIVE zipEntriesWholeUrl(_)
zipEntriesWholeUrl(images) ==
  IF images = <<>> THEN <<>>
  ELSE LET last == images[Len(images)] IN
       zipFile(zipEntriesWholeUrl(SubSeq(images, 1, Len(images) - 1)), last.name, last.url)

\* this.convertedImages.forEach(image => { ... zip.file(...) })
RECURSIVE zipEntries(_)
zipEntries(images) ==
  IF images = <<>> THEN <<>>
  ELSE LET last == images[Len(images)] IN
       zipFile(zipEntries(SubSeq(images, 1, Len(images) - 1)),
               last.name, afterFirstComma(last.url))

\* downloadAllImages() without the check for an empty result list
downloadAllImagesNoEmptyCheck ==
  /\ zips' = Append(zips, zipEntries(convertedImages))
  /\ lastEvent' = "download" /\ inputFiles' = <<>> /\ download' = <<>>
  /\ UNCHANGED <<selectedFiles, convertedImages, isConverting,
                 error, runs, objectUrls>>

\* downloadAllImages() from its call to the await of generateAsync
downloadAllImages ==
  IF Len(convertedImages) = 0
  THEN /\ lastEvent' = "downloadEmpty" /\ inputFiles' = <<>> /\ download' = <<>>
       /\ UNCHANGED <<selectedFiles, convertedImages, isConverting,
                      error, runs, zips, objectUrls>>
  ELSE /\ zips' = Append(zips, zipEntries(convertedImages))
       /\ lastEvent' = "download" /\ inputFiles' = <<>> /\ download' = <<>>
       /\ UNCHANGED <<selectedFiles, convertedImages, isConverting,
                      error, runs, objectUrls>>

\* downloadAllImages() resumed after generateAsync, a rejection not caught
zipGeneratedUncaught(k, outcome) ==
  /\ zips' = RemoveAt(zips, k)
  /\ CASE outcome = "ok" ->
            /\ download' = <<[name |-> "converted_images.zip", entries |-> zips[k]]>>
            /\ lastEvent' = "zipDownloaded" /\ inputFiles' = <<>>
            /\ UNCHANGED <<error, objectUrls>>
       [] outcome = "generateRejects" ->
            /\ lastEvent' = "zipRejected" /\ inputFiles' = <<>>
            /\ download' = <<>> /\ UNCHANGED <<error, objectUrls>>
       [] outcome = "linkThrows" ->
            /\ objectUrls < MaxUrls
            /\ objectUrls' = objectUrls + 1
            /\ error' = Message(<<"Error creating zip file: ">> \o linkErrorMessage)
            /\ lastEvent' = "zipLinkThrows" /\ inputFiles' = <<>>
            /\ download' = <<>>
  /\ UNCHANGED <<selectedFiles, convertedImages, isConverting, runs>>

\* downloadAllImages() resumed after generateAsync: the archive is built and
\* the download triggered, or generateAsync rejects (bad entry data and
\* failures of the generation both surface there), or the link step throws
\* after createObjectURL and before revokeObjectURL
zipGenerated(k, outcome) ==
  /\ zips' = RemoveAt(zips, k)
  /\ CASE outcome = "ok" ->
            /\ download' = <<[name |-> "converted_images.zip", entries |-> zips[k]]>>
            /\ lastEvent' = "zipDownloaded" /\ inputFiles' = <<>>
            /\ UNCHANGED <<error, objectUrls>>
       [] outcome = "generateRejects" ->
            /\ error' = Message(<<"Error creating zip file: ">> \o zipErrorMessage)
            /\ lastEvent' = "zipRejected" /\ inputFiles' = <<>>
            /\ download' = <<>> /\ UNCHANGED objectUrls
       [] outcome = "linkThrows" ->
            /\ objectUrls < MaxUrls
            /\ objectUrls' = objectUrls + 1
            /\ error' = Message(<<"Error creating zip file: ">> \o linkErrorMessage)
            /\ lastEvent' = "zipLinkThrows" /\ inputFiles' = <<>>
            /\ download' = <<>>
  /\ UNCHANGED <<selectedFiles, convertedImages, isConverting, runs>>

ZipOutcomes == {"ok", "generateRejects", "linkThrows"}

----------------------------------------------------------------------------
\* the user picks files: the input control is never disabled
SelectFiles == \E files \in FileLists : handleFileSelect(files)

\* the user clicks the convert button
ClickConvert == ~convertDisabled /\ convertImages

\* the user clicks "Download All Images (ZIP)"
ClickDownloadAll == resultsShown /\ Len(zips) < MaxExports /\ downloadAllImages

ReaderOnload == \E k \in 1..Len(runs) : readerOnload(k)
ReaderOnerror == \E k \in 1..Len(runs) : readerOnerror(k)
ImgOnerror == \E k \in 1..Len(runs) : imgOnerror(k)
ImgOnload == \E k \in 1..Len(runs) : \E outcome \in ImgOutcomes : imgOnload(k, outcome)
ZipGenerated == \E k \in 1..Len(zips) : \E outcome \in ZipOutcomes : zipGenerated(k, outcome)

Next ==
  \/ SelectFiles
  \/ ClickConvert
  \/ ClickDownloadAll
  \/ ReaderOnload
  \/ ReaderOnerror
  \/ ImgOnerror
  \/ ImgOnload
  \/ ZipGenerated

Spec == Init /\ [][Next]_vars

\* The selection filter alone, on lists over the wider set of files.
SelectWide == \E files \in WideFileLists : handleFileSelect(files)

SpecFilter == Init /\ [][SelectWide]_vars

\* The methods called directly, as a test or a parent component calls them,
\* also where the template offers no enabled button: convertImages on an
\* empty selection, downloadAllImages on an empty result list.
CallConvertImages == (selectedFiles = <<>> \/ runs = <<>>) /\ convertImages

CallDownloadAllImages ==
  (convertedImages = <<>> \/ Len(zips) < MaxExports) /\ downloadAllImages

NextCalls ==
  \/ Next
  \/ CallConvertImages
  \/ CallDownloadAllImages

SpecCalls == Init /\ [][NextCalls]_vars

\* Every pending file read and every pending image decode eventually reports
\* success or failure: the platform fires one of the two callbacks.
FairSpec ==
  /\ Spec
  /\ WF_vars(ReaderOnload \/ ReaderOnerror)
  /\ WF_vars(ImgOnload \/ ImgOnerror)

----------------------------------------------------------------------------
\* C1: after handleFileSelect, selectedFiles is exactly the subsequence of the
\* input list whose declared type is 'image/webp' or whose name ends in
\* '.webp' in any letter case: only such files are kept, all of them are
\* kept, and they keep the order of the input.
SuffixLower == <<".", "w", "e", "b", "p">>
SuffixUpper == <<".", "W", "E", "B", "P">>

NamedWebp(name) ==
  /\ Len(name) >= 5
  /\ \A j \in 1..5 : name[Len(name) - 5 + j] \in {SuffixLower[j], SuffixUpper[j]}

WebpPredicate(file) == file.type = "image/webp" \/ NamedWebp(file.name)

C1_SelectionIsWebpSubsequence ==
  lastEvent = "select" =>
  LET kept == { i \in 1..Len(inputFiles) : WebpPredicate(inputFiles[i]) } IN
  \E at \in [1..Len(selectedFiles) -> 1..Len(inputFiles)] :
    /\ \A j, k \in 1..Len(selectedFiles) : j < k => at[j] < at[k]
    /\ { at[j] : j \in 1..Len(selectedFiles) } = kept
    /\ \A j \in 1..Len(selectedFiles) : selectedFiles[j] = inputFiles[at[j]]

C1_Witness ==
  /\ lastEvent = "select"
  /\ inputFiles = <<FileA, FileB, FileC>>
  /\ selectedFiles = <<FileA, FileC>>

----------------------------------------------------------------------------
\* The name 'img-<i>.jpg', spelled out for the positions the model reaches.
DigitNames == <<"1", "2", "3", "4", "5", "6", "7", "8", "9">>
ImgName(i) == <<"i", "m", "g", "-", DigitNames[i], ".", "j", "p", "g">>

\* The events with which a per-file step reports failure.
FailureEvents ==
  {"readerOnerror", "imgOnerror", "imgOnloadDrawThrows", "imgOnloadEncodeThrows"}

\* C2: when a convertImages run ends, convertedImages holds one result per file
\* the run converted before its first failure (all its files when none
\* failed), and the i-th result is named 'img-<i>.jpg'.
C2_RunEndsWithSequentialResults ==
  [][\A k \in 1..Len(runs) :
       (Len(runs') = Len(runs) - 1) =>
         LET converted == IF lastEvent' = "imgOnload" THEN runs[k].i + 1 ELSE runs[k].i IN
         /\ Len(convertedImages') = converted
         /\ \A j \in 1..Len(convertedImages') : convertedImages'[j].name = ImgName(j)]_vars

\* C3: the first failure of a per-file step ends the run at once: no further
\* read is started, the results appended so far stay as they are, and error
\* is a message and isConverting false when the failure has been handled.
C3_FailureAbortsBatch ==
  [][lastEvent' \in FailureEvents =>
       /\ Len(runs') = Len(runs) - 1
       /\ convertedImages' = convertedImages
       /\ ~error'.null
       /\ ~isConverting']_vars

\* C4: isConverting is true exactly while a convertImages run is in flight.
C4_ConvertingIffRunInFlight == isConverting <=> (runs # <<>>)

C4_Witness == isConverting /\ Len(runs) = 1 /\ zips # <<>> /\ lastEvent = "select"

\* C5: every convertImages run that started eventually returns with
\* isConverting false, whichever step of whichever file fails, given that
\* pending reads and decodes report back.
C5_RunEventuallyReturns == (runs # <<>>) ~> (runs = <<>> /\ ~isConverting)

\* C6: files are processed one at a time in selection order: at most one
\* pipeline is in flight, and the read of the file at position i+1 starts
\* only in the step that appends the result of the file at position i.
C6_StrictlySequential ==
  /\ [](Cardinality({ k \in 1..Len(runs) : runs[k].pc \in {"read", "decode", "stuck"} }) <= 1)
  /\ [][\A k \in 1..Len(runs) :
          (Len(runs') = Len(runs) /\ runs'[k] # runs[k] /\ runs'[k].pc = "read") =>
            /\ runs[k].pc = "decode"
            /\ runs'[k].i = runs[k].i + 1
            /\ runs'[k].file = selectedFiles[runs'[k].i + 1]
            /\ Len(convertedImages') = Len(convertedImages) + 1
            /\ SubSeq(convertedImages', 1, Len(convertedImages)) = convertedImages
            /\ convertedImages'[Len(convertedImages')].originalFile = runs[k].file
            /\ convertedImages'[Len(convertedImages')].name = ImgName(runs[k].i + 1)]_vars

C6_Witness ==
  /\ Len(runs) = 1 /\ runs[1].i = 1 /\ runs[1].pc = "read"
  /\ Len(convertedImages) = 1 /\ lastEvent = "imgOnload"

\* C7: the convert button is enabled exactly when files are selected and no
\* run is in flight, so at most one run is in flight at any time.
C7_AtMostOneRun ==
  /\ Len(runs) <= 1
  /\ ~convertDisabled <=> (selectedFiles # <<>> /\ runs = <<>>)

C7_Witness == Len(runs) = 1 /\ selectedFiles # <<>> /\ convertDisabled

\* C8 as stated: while isConverting is true no result is shown.
C8_NoResultsShownWhileConverting == isConverting => ~resultsShown

\* C8 amended: while a run is in flight the results shown are results of that
\* run only, at most one per file it has finished, and none right after it
\* started.
C8_OnlyOwnPartialResultsShown ==
  \A k \in 1..Len(runs) :
    /\ Len(convertedImages) <= runs[k].i
    /\ \A j \in 1..Len(convertedImages) :
         \E n \in 1..runs[k].i : convertedImages[j].name = ImgName(n)
    /\ lastEvent = "convert" => ~resultsShown

C8_Witness == isConverting /\ runs # <<>> /\ resultsShown

\* C9: right after a file selection, a conversion run or an archive export
\* has started, error is null.
C9_ErrorClearedOnNewAttempt ==
  lastEvent \in {"select", "convert", "download"} => error.null

\* C10: handleFileSelect leaves convertedImages empty and error null, also
\* when it selects nothing; the start of a run leaves convertedImages empty.
C10_SelectionAndRunStartReset ==
  /\ lastEvent = "select" => (convertedImages = <<>> /\ error = Null)
  /\ lastEvent = "convert" => convertedImages = <<>>

C10_Witness ==
  /\ lastEvent = "select" /\ inputFiles # <<>> /\ selectedFiles = <<>>
  /\ zips # <<>>

----------------------------------------------------------------------------
\* C11: every result a run appends is named 'img-<k>.jpg' with k the position
\* its originalFile had in selectedFiles when the run started, and the
\* results of one run carry pairwise different names.
C11_NamedByPositionAtRunStart ==
  [][\A k \in 1..Len(runs) :
       lastEvent' = "imgOnload" =>
         LET appended == convertedImages'[Len(convertedImages')] IN
         /\ \E p \in 1..Len(runs[k].started) :
              /\ runs[k].started[p] = appended.originalFile
              /\ appended.name = ImgName(p)
         /\ \A a, b \in 1..Len(convertedImages') :
              a # b => convertedImages'[a].name # convertedImages'[b].name]_vars

\* The events of a run's own pipeline.
RunEvents ==
  {"readerOnload", "readerOnerror", "imgOnerror", "imgOnload",
   "imgOnloadDrawThrows", "imgOnloadEncodeThrows"}

\* C12: while a run is in flight only the run changes BatchState: a step
\* that is not one of its callbacks leaves selectedFiles, convertedImages,
\* isConverting and error as they are, and a callback of the run leaves
\* selectedFiles alone and changes convertedImages only by appending one
\* result.
C12_OnlyTheRunTouchesBatchState ==
  [][runs # <<>> =>
       /\ selectedFiles' = selectedFiles
       /\ lastEvent' \notin RunEvents =>
            UNCHANGED <<convertedImages, isConverting, error>>
       /\ lastEvent' \in RunEvents =>
            \/ convertedImages' = convertedImages
            \/ /\ Len(convertedImages') = Len(convertedImages) + 1
               /\ SubSeq(convertedImages', 1, Len(convertedImages)) = convertedImages]_vars

\* content is what follows the first comma of url
IsPayloadOf(content, url) ==
  \E n \in 1..Len(url) :
    /\ url[n] = ","
    /\ \A m \in 1..(n - 1) : url[m] # ","
    /\ content = SubSeq(url, n + 1, Len(url))

\* C13: an export over a non-empty convertedImages registers one entry per
\* result, named as the result and holding the payload of its url after the
\* scheme prefix, and when it succeeds it starts exactly one download, named
\* 'converted_images.zip', of exactly the entries registered at its start.
C13_ArchiveMirrorsResults ==
  [][/\ lastEvent' = "download" =>
          LET entries == zips'[Len(zips')] IN
          /\ Len(zips') = Len(zips) + 1
          /\ Len(entries) = Len(convertedImages)
          /\ \A j \in 1..Len(entries) :
               /\ entries[j].name = convertedImages[j].name
               /\ IsPayloadOf(entries[j].content, convertedImages[j].url)
     /\ lastEvent' = "zipDownloaded" =>
          \E k \in 1..Len(zips) :
            /\ zips' = SubSeq(zips, 1, k - 1) \o SubSeq(zips, k + 1, Len(zips))
            /\ download' = <<[name |-> "converted_images.zip", entries |-> zips[k]]>>]_vars

C13_Witness ==
  /\ lastEvent = "zipDownloaded"
  /\ Len(download) = 1
  /\ Len(download[1].entries) = 2
  /\ download[1].entries[1].name = ImgName(1)
  /\ download[1].entries[2].name = ImgName(2)
  /\ download[1].entries[2].content = <<"jpeg", "C">>

\* C14: downloadAllImages invoked on an empty convertedImages does nothing:
\* no archive is started, no download is triggered, and selectedFiles,
\* convertedImages, isConverting and error stay as they are.
C14_ExportOfNothingIsNoOp ==
  [][(lastEvent' \in {"download", "downloadEmpty"} /\ convertedImages = <<>>) =>
       /\ UNCHANGED <<selectedFiles, convertedImages, isConverting, error>>
       /\ UNCHANGED <<zips, objectUrls, runs>>
       /\ download' = <<>>]_vars

C14_Witness ==
  /\ lastEvent = "downloadEmpty"
  /\ convertedImages = <<>> /\ selectedFiles # <<>> /\ ~error.null
  /\ zips = <<>> /\ download = <<>>

\* C15: an object URL an export creates is released before the export
\* returns, on every exit path: between steps no object URL is left alive.
C15_ObjectUrlReleased == objectUrls = 0

\* C16: when building the archive fails the failure is caught: error is a
\* message, no download is triggered, the export is over, and selectedFiles,
\* convertedImages and isConverting stay as they are.
C16_ArchiveFailureCaught ==
  [][lastEvent' = "zipRejected" =>
       /\ ~error'.null
       /\ error'.text[1] = "Error creating zip file: "
       /\ download' = <<>>
       /\ Len(zips') = Len(zips) - 1
       /\ UNCHANGED <<selectedFiles, convertedImages, isConverting, objectUrls>>]_vars

C16_Witness ==
  /\ lastEvent = "zipRejected" /\ ~error.null /\ zips = <<>>
  /\ convertedImages # <<>> /\ download = <<>>

\* C17: every invocation of convertWebpToJpeg settles: as long as it has
\* neither resolved nor rejected, a callback that will settle it or carry it
\* on is still pending.
C17_EveryInvocationSettles ==
  \A k \in 1..Len(runs) :
    ENABLED (\/ readerOnload(k)
             \/ readerOnerror(k)
             \/ imgOnerror(k)
             \/ \E outcome \in ImgOutcomes : imgOnload(k, outcome))

\* name occurs in text
Contains(text, name) ==
  \E n \in 0..(Len(text) - Len(name)) : SubSeq(text, n + 1, n + Len(name)) = name

\* C18: when a run ends because the read or the decode of a file failed, the
\* error it leaves includes the name of that file and of no other file.
C18_ErrorNamesFailedFile ==
  [][\A k \in 1..Len(runs) :
       lastEvent' \in {"readerOnerror", "imgOnerror"} =>
         /\ Len(runs') = Len(runs) - 1
         /\ ~error'.null
         /\ Contains(error'.text, runs[k].file.name)
         /\ \A other \in FilePool \ {runs[k].file} :
              ~Contains(error'.text, other.name)]_vars

C18_Witness ==
  /\ lastEvent = "readerOnerror"
  /\ error = [null |-> FALSE,
              text |-> <<"Error converting images: ", "Failed to read file: ",
                         "c", ".", "W", "E", "B", "P">>]
  /\ Len(convertedImages) = 1 /\ runs = <<>>

\* C19: convertImages invoked on an empty selectedFiles does nothing: no read
\* is started, selectedFiles, convertedImages, isConverting and error stay as
\* they are, and isConverting stays false when no run is in flight.
C19_ConvertOfNothingIsNoOp ==
  [][(lastEvent' \in {"convert", "convertEmpty"} /\ selectedFiles = <<>>) =>
       /\ UNCHANGED <<selectedFiles, convertedImages, isConverting, error, runs>>
       /\ runs = <<>> => ~isConverting']_vars

C19_Witness ==
  /\ lastEvent = "convertEmpty"
  /\ selectedFiles = <<>>
  /\ ~isConverting /\ runs = <<>> /\ ~error.null

\* C20: convertedImages belongs to the current selection: it is no longer
\* than selectedFiles and the originalFile of each result is one of
\* selectedFiles.
C20_ResultsBelongToSelection ==
  /\ Len(convertedImages) <= Len(selectedFiles)
  /\ \A j \in 1..Len(convertedImages) :
       \E p \in 1..Len(selectedFiles) : selectedFiles[p] = convertedImages[j].originalFile

====
